---- MODULE Spec2Model ----
(***************************************************************************)
(* Model of gapi/gnipapi.py: the retry-wrapped request executor, the       *)
(* session handling and the ResultStream pagination generator.             *)
(*                                                                         *)
(* One ResultStream is modelled together with its caller.  Control is      *)
(* either with the caller (pc = "caller") or inside the retry loop of      *)
(* request(), entered from start_stream (pc = "start_request") or from     *)
(* the generator (pc = "iter_request").  Every POST attempt is one step;   *)
(* everything the code does between two POSTs or between a POST and the    *)
(* next yield belongs to the step that starts it.                          *)
(***************************************************************************)
EXTENDS Integers, Sequences, FiniteSets

\* ------------------------------------------------------------------ bounds
MaxPageLen == 2     \* items in one response
MaxItems   == 3     \* items the server hands out in one run
MaxFetch   == 3     \* status-200 responses in one run
LongFetch  == 21    \* status-200 responses in one long run
DeepFetch  == 1000  \* status-200 responses in one deep run
MaxStarts  == 2     \* calls of start_stream in one run
MaxCap     == 2     \* small values of max_results

\* --------------------------------------------------------------- constants
MAX_TRIES == 3
RECURSION_LIMIT == 1000   \* frames the interpreter allows (its default)
DEFAULT_MAX_RESULTS == 1000

\* keys of the table GNIP_RESP_CODES
GNIP_RESP_CODES == {200, 400, 401, 404, 422, 429, 500, 502, 503}

\* the explanations of the table, by their leading words
GNIP_RESP_TEXT ==
    [c \in GNIP_RESP_CODES |->
        CASE c = 200 -> "OK"
          [] c = 400 -> "Bad Request"
          [] c = 401 -> "Unauthorized"
          [] c = 404 -> "Not Found"
          [] c = 422 -> "Unprocessable Entity"
          [] c = 429 -> "Unknown Code"
          [] c = 500 -> "Internal Server Error"
          [] c = 502 -> "Proxy Error"
          [] c = 503 -> "Service Unavailable"]

\* status codes the modelled server answers with: success, a code of the
\* table and a code that is not in the table
StatusCodes == {200, 503, 418}

\* Optional values: None is the empty tuple, a present value is wrapped.
None == <<>>
Some(v) == <<v>>
NoToken == 0        \* next_token = None; tokens of the API are non-empty
NoSession == 0      \* session = None

\* URLs as sequences of text pieces, the separators "/" and "." being
\* pieces of their own.
Urls == { <<"search", "/", "acct", "/", "prod", "/", "counts", ".", "json">>,
          <<"search", "/", "acct", "/", "discounts", ".", "json">> }

\* ------------------------------------------------------------------- state
VARIABLES
    url, max_results, tweetify,   \* constructor arguments kept as fields
    rule_payload,                 \* self.rule_payload
    total_results, n_pages,       \* self.total_results, self.n_pages
    session,                      \* self.session: index into sessions
    current_tweets, next_token,   \* self.current_tweets, self.next_token
    tweet_func,                   \* self._tweet_func: "Tweet" or "identity"
    sessions,                     \* every session made so far: open/closed
    pc,                           \* where control is
    gen,                          \* state of the generator start returned
    tweets, i,                    \* the generator's locals tweets and i
    depth,                        \* generators nested by yield from iter(self)
    tries,                        \* local tries of retried_func
    resp,                         \* outcome of the latest POST attempt
    error,                        \* exception the latest operation raised
    op,                           \* latest operation of the caller
    emitted,                      \* items the generator has yielded
    servedItems,                  \* items of all status-200 responses
    nResp, nCalls,                \* 200 responses parsed, request() calls
    callPosts, callResult,        \* POSTs and outcome of the latest call
    usedSession, prevUsedSession, \* session of the latest / previous call
    nStarts,                      \* calls of start_stream
    bufferedStatus,               \* status of the response parsed last
    fetchLimit,                   \* status-200 responses the server gives
    itemLimit,                    \* items the server hands out
    startLimit,                   \* calls of start_stream the caller makes
    pb_args, pb_result            \* gen_rule_payload: arguments and outcome

config  == <<url, max_results, tweetify, fetchLimit, itemLimit, startLimit>>
fields  == <<rule_payload, total_results, n_pages, session, current_tweets,
             next_token, tweet_func>>
control == <<pc, gen, tweets, i, depth, tries, resp, error, op>>
history == <<emitted, servedItems, nResp, nCalls, callPosts,
             callResult, usedSession, prevUsedSession, nStarts,
             bufferedStatus>>
builder == <<pb_args, pb_result>>
vars    == <<config, fields, control, history, sessions, builder>>

\* an exception of the given kind that carries no data
Exc(kind) ==
    [kind |-> kind, status_code |-> 0, explanation |-> "", payload |-> None]

NoError == Exc("none")
NoResp  == [exc |-> "none", status_code |-> 0]

\* ------------------------------------------------------------ pure helpers
RECURSIVE re_split(_)
\* re.split("[/.]", url): the pieces of the url between separators
re_split(u) ==
    IF u = <<>> THEN {}
    ELSE IF Head(u) \in {"/", "."} THEN re_split(Tail(u))
    ELSE {Head(u)} \cup re_split(Tail(u))

\* a check_counts that never disables the parsing
check_counts_keeps(u, func) == func

\* check_counts: the transform after looking at the url
check_counts(u, func) ==
    IF "counts" \in re_split(u) THEN "identity" ELSE func

\* Tweet(t): the parsed tweet built from a raw item
Tweet(t) == <<"Tweet", t[2]>>

\* self._tweet_func(t)
ApplyTweetFunc(func, t) == IF func = "Tweet" THEN Tweet(t) ELSE t

\* merge_dicts(d1, d2): keys of both, d2 winning
merge_dicts(d1, d2) ==
    [k \in (DOMAIN d1) \cup (DOMAIN d2) |->
        IF k \in DOMAIN d2 THEN d2[k] ELSE d1[k]]

\* make_session: a new open session appended to those made so far
make_session(ss) == Append(ss, "open")

\* a close that leaves the session as it is
SessionCloseNothing(ss, s) == ss

\* session.close()
SessionClose(ss, s) == [ss EXCEPT ![s] = "closed"]

\* ---------------------------------------------------------- retry decisions
\* a retry loop that treats a connection error like a bad status
ReraisesOnlyHTTPError(exc) == exc = "HTTPError"

\* the except clauses of retried_func: these exceptions are re-raised
Reraises(exc) == exc \in {"ConnectionError", "HTTPError"}

\* line 65: retry once more
ShouldRetry(status, t) == status /= 200 /\ t < MAX_TRIES

\* a final check that lets client errors through
RaisesOnServerErrorOnly(status) == status >= 500

\* line 73: raise after the loop
RaisesAfterLoop(status) == status /= 200

\* what line 74-78 raises: the table lookup fails for an unknown code
RaisedKind(status) ==
    IF status \in GNIP_RESP_CODES THEN "HTTPError" ELSE "KeyError"

\* the exception of lines 73-78: the status code, the explanation and the
\* payload are printed; the HTTPError raised is the bare class, the KeyError
\* of a failed table lookup has the looked-up code as its key
RaisedError(status, payload) ==
    IF RaisedKind(status) = "HTTPError"
    THEN Exc("HTTPError")
    ELSE [Exc("KeyError") EXCEPT !.status_code = status]

\* ------------------------------------------------------------ the generator
\* a cap test that is off by one
CapExceeded(total, cap) == total > cap

\* lines 254 and 259
CapReached(total, cap) == total >= cap

\* a token test that always asks for another page
HasNextAlways(token) == TRUE

\* line 263
HasNext(token) == token /= NoToken

\* a loop that walks the page from its end
EnumerateReversed(tw, k) == tw[Len(tw) - k]

\* the (k+1)-th tweet the for loop takes from the generator expression
Enumerate(tw, k) == tw[k + 1]

\* frames on the interpreter's stack when the generator at nesting depth d
\* calls for the next page: at least one of the caller, the d generators,
\* and execute_request, retried_func, request and session.post
StackFrames(d) == d + 5

\* the call at line 267 finds the stack full
StackOverflow(d) == StackFrames(d) > RECURSION_LIMIT

\* the generator stops: by yield, by return, by the request for the next
\* page, or by an exception
Step(g, tw, k, out, payload, pages, d) ==
    [gen |-> g, tweets |-> tw, i |-> k, emitted |-> out,
     rule_payload |-> payload, n_pages |-> pages,
     depth |-> IF g \in {"suspended", "running"} THEN d ELSE 0,
     fetch |-> g = "running",
     error |-> IF g = "failed" THEN Exc("RecursionError") ELSE NoError]

\* an __iter__ without the cap test after the loop (lines 259-261)
IterateWithoutCapReturn(tw, k, total, token, payload, pages, func, out, d) ==
    IF k < Len(tw) /\ ~CapReached(total, max_results)
    THEN Step("suspended", tw, k,
              Append(out, ApplyTweetFunc(func, Enumerate(tw, k))),
              payload, pages, d)
    ELSE IF HasNext(token)
    THEN Step(IF StackOverflow(d) THEN "failed" ELSE "running", tw, k, out,
              merge_dicts(payload, [next |-> token]), pages + 1, d)
    ELSE Step("done", tw, k, out, payload, pages, d)

\* __iter__ of the generator at nesting depth d, run from the head of the
\* for loop, k tweets of tw consumed, up to its next yield, its return, the
\* request for the next page or the RecursionError of that call
Iterate(tw, k, total, token, payload, pages, func, out, d) ==
    IF k < Len(tw) /\ ~CapReached(total, max_results)
    THEN Step("suspended", tw, k,
              Append(out, ApplyTweetFunc(func, Enumerate(tw, k))),
              payload, pages, d)
    ELSE IF CapReached(total, max_results)
    THEN Step("done", tw, k, out, payload, pages, d)
    ELSE IF HasNext(token)
    THEN Step(IF StackOverflow(d) THEN "failed" ELSE "running", tw, k, out,
              merge_dicts(payload, [next |-> token]), pages + 1, d)
    ELSE Step("done", tw, k, out, payload, pages, d)

\* ------------------------------------------------------ the payload builder
\* Strings are sequences of pieces: groups of digits, words, and the
\* separators and blanks between them.  An optional argument is None or
\* Some(string).
Years   == {"2017"}
Months  == {"08"}
Days    == {"21", "22"}
Hours   == {"00", "13"}
Minutes == {"00"}

\* the date strings tried: the three accepted forms, an empty string, a
\* form with the wrong separator and a form without year
DateStrings ==
    { <<"2017", "08", d, h, "00">> : d \in Days, h \in {"13"} }
    \cup { <<"2017", "-", "08", "-", d>> : d \in Days }
    \cup { <<"2017", "-", "08", "-", d, " ", "13", ":", "00">> : d \in {"21"} }
    \cup { <<>>, <<"2017", "/", "08", "/", "21">>, <<"08", "-", "22">> }

Buckets == {<<"day">>, <<"hour">>, <<"minute">>, <<"week">>, <<>>}

Rules == { <<"kanye", " ", "west">>,
           <<"kanye", "\n", " ", "west", " ">> }

\* truth value of an optional string argument
Truthy(arg) == arg /= None /\ arg[1] /= <<>>

ValidFields(Y, m, d, H, M) ==
    Y \in Years /\ m \in Months /\ d \in Days /\ H \in Hours /\ M \in Minutes

\* datetime.strptime(str, fmt) for the three formats of convert_utc_time:
\* the fields parsed, or a ValueError
strptime(str, fmt) ==
    IF fmt = "%Y%m%d%H%M"
    THEN IF Len(str) = 5 /\ ValidFields(str[1], str[2], str[3], str[4], str[5])
         THEN [ok |-> TRUE, date |-> str]
         ELSE [ok |-> FALSE, date |-> <<>>]
    ELSE IF fmt = "%Y-%m-%d %H:%M"
    THEN IF /\ Len(str) = 9
            /\ <<str[2], str[4], str[6], str[8]>> = <<"-", "-", " ", ":">>
            /\ ValidFields(str[1], str[3], str[5], str[7], str[9])
         THEN [ok |-> TRUE,
               date |-> <<str[1], str[3], str[5], str[7], str[9]>>]
         ELSE [ok |-> FALSE, date |-> <<>>]
    ELSE IF /\ Len(str) = 5
            /\ <<str[2], str[4]>> = <<"-", "-">>
            /\ ValidFields(str[1], str[3], str[5], "00", "00")
         THEN [ok |-> TRUE, date |-> <<str[1], str[3], str[5], "00", "00">>]
         ELSE [ok |-> FALSE, date |-> <<>>]

\* _date.strftime("%Y%m%d%H%M")
strftime(date) == date

\* set(datetime_str): the characters of the string, by its pieces
Pieces(str) == {str[n] : n \in 1..Len(str)}

\* convert_utc_time: None for an argument that is not true, the GNIP form
\* of the date, or a ValueError
convert_utc_time(arg) ==
    IF ~Truthy(arg)
    THEN [ok |-> TRUE, value |-> None]
    ELSE LET str == arg[1]
             parsed ==
                 IF {"-", ":"} \cap Pieces(str) = {}
                 THEN strptime(str, "%Y%m%d%H%M")
                 ELSE IF strptime(str, "%Y-%m-%d %H:%M").ok
                 THEN strptime(str, "%Y-%m-%d %H:%M")
                 ELSE strptime(str, "%Y-%m-%d")
         IN  IF parsed.ok
             THEN [ok |-> TRUE, value |-> Some(strftime(parsed.date))]
             ELSE [ok |-> FALSE, value |-> None]

RECURSIVE str_split(_)
\* pt_rule.split(): the words of the rule
str_split(str) ==
    IF str = <<>> THEN <<>>
    ELSE IF Head(str) \in {" ", "\n"} THEN str_split(Tail(str))
    ELSE <<Head(str)>> \o str_split(Tail(str))

RECURSIVE str_join(_)
\* ' '.join(words)
str_join(words) ==
    IF Len(words) <= 1 THEN words
    ELSE <<Head(words), " ">> \o str_join(Tail(words))

\* json.dumps and json.loads
json_dumps(payload) == <<"json", payload>>
json_loads(text) == text[2]

\* a bucket test that forgets the minute
ValidBucketWithoutMinute(bucket) ==
    {<<"day">>, <<"hour">>} \cap {bucket} /= {}

\* line 156
ValidBucket(bucket) ==
    {<<"day">>, <<"hour">>, <<"minute">>} \cap {bucket} /= {}

\* a deletion that deletes nothing
KeepKey(payload, key) == payload

\* del payload[key]
DelKey(payload, key) == [k \in (DOMAIN payload) \ {key} |-> payload[k]]

ValueError(cause) == [raised |-> "ValueError", cause |-> cause, value |-> <<>>]
Returned(value) == [raised |-> "none", cause |-> "", value |-> value]
NotBuilt == [raised |-> "pending", cause |-> "", value |-> <<>>]
NoArgs == <<>>

\* gen_rule_payload
gen_rule_payload(pt_rule, max_res, from_date, to_date, count_bucket, stringify) ==
    LET rule == str_join(str_split(pt_rule))
        p0 == [query |-> rule, maxResults |-> max_res]
        to_conv == convert_utc_time(to_date)
        from_conv == convert_utc_time(from_date)
        p1 == IF Truthy(from_date)
              THEN merge_dicts(p0, [toDate |-> to_conv.value])
              ELSE p0
        p2 == IF Truthy(to_date)
              THEN merge_dicts(p1, [fromDate |-> from_conv.value])
              ELSE p1
        p3 == IF Truthy(count_bucket)
              THEN DelKey(merge_dicts(p2, [bucket |-> count_bucket[1]]),
                          "maxResults")
              ELSE p2
    IN  IF Truthy(from_date) /\ ~to_conv.ok THEN ValueError("strptime")
        ELSE IF Truthy(to_date) /\ ~from_conv.ok THEN ValueError("strptime")
        ELSE IF Truthy(count_bucket) /\ ~ValidBucket(count_bucket[1])
        THEN ValueError("count_bucket")
        ELSE Returned(IF stringify THEN json_dumps(p3) ELSE p3)

\* -------------------------------------------------------------------- Init
\* ResultStream.__init__ once its arguments are chosen
InitStream ==
    /\ rule_payload = [query |-> "rule", maxResults |-> 100]
    /\ total_results = 0
    /\ n_pages = 0
    /\ session = NoSession
    /\ current_tweets = None
    /\ next_token = NoToken
    /\ tweet_func = IF tweetify THEN "Tweet" ELSE "identity"
    /\ sessions = <<>>
    /\ pc = "caller"
    /\ gen = "none"
    /\ tweets = <<>>
    /\ i = 0
    /\ depth = 0
    /\ tries = 0
    /\ resp = NoResp
    /\ error = NoError
    /\ op = "init"
    /\ emitted = <<>>
    /\ servedItems = <<>>
    /\ nResp = 0
    /\ nCalls = 0
    /\ callPosts = 0
    /\ callResult = "none"
    /\ usedSession = NoSession
    /\ prevUsedSession = NoSession
    /\ nStarts = 0
    /\ bufferedStatus = 0

\* a stream over any url, cap and transform, and a server with few pages
Init ==
    /\ url \in Urls
    /\ max_results \in (0..MaxCap) \cup {DEFAULT_MAX_RESULTS}
    /\ tweetify \in BOOLEAN
    /\ fetchLimit = MaxFetch
    /\ itemLimit = MaxItems
    /\ startLimit = MaxStarts
    /\ InitStream
    /\ pb_args = NoArgs
    /\ pb_result = NotBuilt

\* a stream with the default cap, started once, and a server with many
\* pages
InitLong ==
    /\ url \in Urls
    /\ max_results = DEFAULT_MAX_RESULTS
    /\ tweetify = TRUE
    /\ fetchLimit = LongFetch
    /\ itemLimit = MaxItems
    /\ startLimit = 1
    /\ InitStream
    /\ pb_args = NoArgs
    /\ pb_result = NotBuilt

\* ----------------------------------------------------------------- actions
\* bookkeeping of entering request(): retried_func starts with tries = 0
BeginRequest ==
    /\ tries' = 0
    /\ resp' = NoResp
    /\ nCalls' = nCalls + 1
    /\ callPosts' = 0
    /\ callResult' = "pending"
    /\ usedSession' = session'
    /\ prevUsedSession' = usedSession

\* start_stream up to the first POST: init_session, check_counts and the
\* entry into execute_request.  A generator the caller still holds is
\* dropped.
StartStream ==
    /\ pc = "caller"
    /\ nStarts < startLimit
    /\ sessions' = make_session(sessions)
    /\ session' = Len(sessions')
    /\ tweet_func' = check_counts(url, tweet_func)
    /\ pc' = "start_request"
    /\ gen' = "none"
    /\ tweets' = <<>>
    /\ i' = 0
    /\ depth' = 0
    /\ emitted' = <<>>
    /\ error' = NoError
    /\ op' = "start"
    /\ nStarts' = nStarts + 1
    /\ BeginRequest
    /\ UNCHANGED <<config, rule_payload, total_results, n_pages,
                   current_tweets, next_token, servedItems, nResp,
                   bufferedStatus, builder>>

\* the responses the server may give to one POST
Outcomes ==
    { [exc |-> e, status_code |-> 0, results |-> <<>>, next |-> NoToken] :
        e \in {"ConnectionError", "HTTPError"} }
    \cup
    { [exc |-> "none", status_code |-> s, results |-> <<>>, next |-> NoToken] :
        s \in StatusCodes \ {200} }
    \cup
    { [exc |-> "none", status_code |-> 200,
       results |-> [n \in 1..len |-> <<"raw", Len(servedItems) + n>>],
       next |-> t] :
        len \in 0..MaxPageLen, t \in {NoToken, nResp + 1} }

\* the request raises: control returns to the caller with the exception;
\* inside the generator the exception ends the generator
Raise(exc) ==
    /\ error' = exc
    /\ callResult' = "raised"
    /\ pc' = "caller"
    /\ gen' = IF pc = "iter_request" THEN "failed" ELSE gen
    /\ depth' = 0
    /\ callPosts' = callPosts + 1
    /\ UNCHANGED <<tries, nCalls, usedSession, prevUsedSession>>
    /\ UNCHANGED <<fields, tweets, i, emitted, servedItems, nResp,
                   bufferedStatus>>

\* retried_func returns r: the rest of execute_request, and then either the
\* return of start_stream or the nested iter(self) of the generator
Return(r) ==
    /\ next_token' = r.next
    /\ current_tweets' = Some(r.results)
    /\ servedItems' = servedItems \o r.results
    /\ nResp' = nResp + 1
    /\ bufferedStatus' = r.status_code
    /\ UNCHANGED <<total_results, session, tweet_func>>
    /\ IF pc = "start_request"
       THEN /\ pc' = "caller"
            /\ gen' = "created"
            /\ error' = NoError
            /\ callResult' = "returned"
            /\ callPosts' = callPosts + 1
            /\ UNCHANGED <<rule_payload, n_pages, tweets, i, depth, emitted,
                           tries, nCalls, usedSession, prevUsedSession>>
       ELSE LET g == Iterate(r.results, 0, total_results, r.next,
                             rule_payload, n_pages, tweet_func, emitted,
                             depth + 1)
            IN  /\ gen' = g.gen
                /\ tweets' = g.tweets
                /\ i' = g.i
                /\ depth' = g.depth
                /\ error' = g.error
                /\ emitted' = g.emitted
                /\ rule_payload' = g.rule_payload
                /\ n_pages' = g.n_pages
                /\ IF g.fetch
                   THEN /\ pc' = "iter_request"
                        /\ tries' = 0
                        /\ nCalls' = nCalls + 1
                        /\ callPosts' = 0
                        /\ callResult' = "pending"
                        /\ usedSession' = session
                        /\ prevUsedSession' = usedSession
                   ELSE /\ pc' = "caller"
                        /\ callPosts' = callPosts + 1
                        /\ callResult' = "returned"
                        /\ UNCHANGED <<tries, nCalls, usedSession,
                                       prevUsedSession>>

\* one pass of the while loop of retried_func around request()
Post ==
    /\ pc \in {"start_request", "iter_request"}
    /\ \E r \in Outcomes :
        /\ r.status_code = 200 =>
              /\ nResp < fetchLimit
              /\ Len(servedItems) + Len(r.results) <= itemLimit
        /\ resp' = [exc |-> r.exc, status_code |-> r.status_code]
        /\ IF Reraises(r.exc)
           THEN Raise(Exc(r.exc))
           ELSE IF ShouldRetry(r.status_code, tries)
           THEN /\ tries' = tries + 1
                /\ callPosts' = callPosts + 1
                /\ UNCHANGED <<pc, gen, depth, error, callResult, nCalls,
                               usedSession, prevUsedSession>>
                /\ UNCHANGED <<fields, tweets, i, emitted, servedItems,
                               nResp, bufferedStatus>>
           ELSE IF RaisesAfterLoop(r.status_code)
           THEN Raise(RaisedError(r.status_code, rule_payload))
           ELSE Return(r)
    /\ UNCHANGED <<config, sessions, op, nStarts, builder>>

\* next() on the generator, up to its next yield, its end or the first POST
\* for the next page
NextItem ==
    /\ pc = "caller"
    /\ gen \in {"created", "suspended"}
    /\ op' = "next"
    /\ IF gen = "created" /\ current_tweets = None
       THEN \* iterating over None
            /\ error' = Exc("TypeError")
            /\ gen' = "failed"
            /\ UNCHANGED <<fields, pc, tweets, i, depth, tries, resp, emitted,
                           nCalls, callPosts, callResult, usedSession,
                           prevUsedSession>>
       ELSE LET total == IF gen = "suspended" THEN total_results + 1
                         ELSE total_results
                g == IF gen = "suspended"
                     THEN Iterate(tweets, i + 1, total, next_token,
                                  rule_payload, n_pages, tweet_func, emitted,
                                  depth)
                     ELSE Iterate(current_tweets[1], 0, total, next_token,
                                  rule_payload, n_pages, tweet_func, emitted,
                                  1)
            IN  /\ total_results' = total
                /\ gen' = g.gen
                /\ tweets' = g.tweets
                /\ i' = g.i
                /\ emitted' = g.emitted
                /\ rule_payload' = g.rule_payload
                /\ n_pages' = g.n_pages
                /\ depth' = g.depth
                /\ error' = g.error
                /\ UNCHANGED <<session, current_tweets, next_token,
                               tweet_func>>
                /\ IF g.fetch
                   THEN /\ pc' = "iter_request"
                        /\ BeginRequest
                   ELSE UNCHANGED <<pc, tries, resp, nCalls, callPosts,
                                    callResult, usedSession, prevUsedSession>>
    /\ UNCHANGED <<config, sessions, servedItems, nResp, nStarts,
                   bufferedStatus, builder>>

\* end_stream: the buffer is dropped first, then the session is closed;
\* without a session the close raises
EndStream ==
    /\ pc = "caller"
    /\ op' = "end"
    /\ current_tweets' = None
    /\ IF session = NoSession
       THEN /\ error' = Exc("AttributeError")
            /\ UNCHANGED sessions
       ELSE /\ error' = NoError
            /\ sessions' = SessionClose(sessions, session)
    /\ UNCHANGED <<config, rule_payload, total_results, n_pages, session,
                   next_token, tweet_func, pc, gen, tweets, i, depth, tries,
                   resp, history, builder>>

Next == StartStream \/ Post \/ NextItem \/ EndStream

Spec == Init /\ [][Next]_vars

SpecLong == InitLong /\ [][Next]_vars

\* a stream with the default cap, started once, and a server with very
\* many pages, nearly all of them empty
InitDeep ==
    /\ url \in Urls
    /\ max_results = DEFAULT_MAX_RESULTS
    /\ tweetify = TRUE
    /\ fetchLimit = DeepFetch
    /\ itemLimit = 1
    /\ startLimit = 1
    /\ InitStream
    /\ pb_args = NoArgs
    /\ pb_result = NotBuilt

SpecDeep == InitDeep /\ [][Next]_vars

\* the payload builder on its own: no stream is started
InitPayload ==
    /\ url \in Urls
    /\ max_results = DEFAULT_MAX_RESULTS
    /\ tweetify = TRUE
    /\ fetchLimit = 0
    /\ itemLimit = 0
    /\ startLimit = 0
    /\ InitStream
    /\ pb_args \in [pt_rule : Rules,
                    max_results : {100, 500},
                    from_date : {None} \cup {Some(d) : d \in DateStrings},
                    to_date : {None} \cup {Some(d) : d \in DateStrings},
                    count_bucket : {None} \cup {Some(b) : b \in Buckets},
                    stringify : BOOLEAN]
    /\ pb_result = NotBuilt

\* one call of gen_rule_payload
GenRulePayload ==
    /\ pb_result = NotBuilt
    /\ pb_result' = gen_rule_payload(pb_args.pt_rule, pb_args.max_results,
                                     pb_args.from_date, pb_args.to_date,
                                     pb_args.count_bucket, pb_args.stringify)
    /\ UNCHANGED <<config, fields, control, history, sessions, pb_args>>

NextPayload == GenRulePayload

SpecPayload == InitPayload /\ [][NextPayload]_vars

C2_AtMostThreeAttempts ==
    (callResult = "raised" /\ resp.exc = "none") => callPosts <= 3

\* C3: after an attempt that fails with a connection error the call has
\* ended by raising: control is back with the caller and the failed
\* attempt was the last POST of the call (one more than the retries made).
C3_TransportErrorNotRetried ==
    resp.exc = "ConnectionError" =>
        /\ pc = "caller"
        /\ callResult = "raised"
        /\ callPosts = tries + 1

\* a follow-up page fetch failed with a connection error after two retries
C3_Witness ==
    /\ resp.exc = "ConnectionError"
    /\ tries = 2
    /\ gen = "failed"
    /\ error.kind = "ConnectionError"

\* C4: a call of the retry-wrapped request that returned a response returned
\* one with status 200, a call whose last response is not 200 raised, and
\* the body the stream parsed last came from a status-200 response.
C4_ReturnsOnly200 ==
    /\ callResult = "returned" => (resp.exc = "none" /\ resp.status_code = 200)
    /\ (pc = "caller" /\ callResult /= "none" /\ resp.status_code /= 200)
          => callResult = "raised"
    /\ bufferedStatus \in {0, 200}

\* a 200 came after retries and was returned; and a call ended on a non-200
C4_Witness ==
    /\ callResult = "returned"
    /\ tries = MAX_TRIES
    /\ resp.status_code = 200
    /\ current_tweets /= None

\* the items of seq as the transform func hands them out
Transformed(seq, func) ==
    [n \in 1..Len(seq) |-> ApplyTweetFunc(func, seq[n])]

Min(a, b) == IF a <= b THEN a ELSE b

\* the stream was started once and its first response, the only one so
\* far, carried no continuation token
FirstResponseWithoutToken ==
    nStarts = 1 /\ nResp = 1 /\ next_token = NoToken

\* C5 as stated: when the first response has no continuation token, the
\* finished stream has yielded every item of that response, whatever
\* max_results is, and has made one request.
C5_YieldsWholeFirstPage ==
    (FirstResponseWithoutToken /\ gen = "done") =>
        /\ emitted = Transformed(servedItems, tweet_func)
        /\ nCalls = 1

\* C5 amended: when the first response has no continuation token, no
\* further request is ever made, what has been yielded is at every moment
\* a prefix of that response's items (each through the item transform), and
\* the finished stream has yielded exactly the first min(max_results, n) of
\* its n items.
C5_YieldsFirstPageUpToCap ==
    FirstResponseWithoutToken =>
        /\ nCalls = 1
        /\ pc = "caller"
        /\ Len(emitted) <= Min(max_results, Len(servedItems))
        /\ emitted = Transformed(SubSeq(servedItems, 1, Len(emitted)),
                                 tweet_func)
        /\ gen = "done" =>
              Len(emitted) = Min(max_results, Len(servedItems))

\* a first page of two items without token, cut by a cap of one
C5_Witness ==
    /\ FirstResponseWithoutToken
    /\ gen = "done"
    /\ Len(servedItems) = 2
    /\ max_results = 1
    /\ Len(emitted) = 1

\* C6: for a stream started once, the items yielded so far are at every
\* moment the leading items of the responses in the order received; and when
\* the stream has finished with fewer items received than max_results, it
\* has yielded all of them, every request returned one response (k requests
\* for k responses), only the last response lacked a token, and n_pages is
\* k - 1.
C6_PagesInOrder ==
    nStarts = 1 =>
        /\ Len(emitted) <= Len(servedItems)
        /\ emitted = Transformed(SubSeq(servedItems, 1, Len(emitted)),
                                 tweet_func)
        /\ (gen = "done" /\ Len(servedItems) < max_results) =>
              /\ emitted = Transformed(servedItems, tweet_func)
              /\ nCalls = nResp
              /\ n_pages = nResp - 1
              /\ next_token = NoToken

\* three responses, the last without token, all items yielded
C6_Witness ==
    /\ nStarts = 1
    /\ gen = "done"
    /\ nResp = 3
    /\ n_pages = 2
    /\ nCalls = 3
    /\ Len(emitted) = 3
    /\ max_results = DEFAULT_MAX_RESULTS

\* C7: a follow-up page fetch made when the page counter has reached a
\* positive multiple of 20 uses a session different from the one the
\* preceding fetch used.
C7_SessionRefreshedEvery20 ==
    (pc = "iter_request" /\ n_pages > 0 /\ n_pages % 20 = 0) =>
        usedSession /= prevUsedSession

OpenSessions == {s \in 1..Len(sessions) : sessions[s] = "open"}

\* C8: a stream has at most one open session.
C8_AtMostOneOpenSession == Cardinality(OpenSessions) <= 1

\* C9: a stream that has terminated by itself, or that the caller has ended
\* after starting it, has its session closed and its buffer cleared.
C9_TornDown ==
    (gen = "done" \/ (op = "end" /\ nStarts > 0)) =>
        /\ current_tweets = None
        /\ sessions[session] = "closed"

\* C10 as stated: end() in any state, the Uninitialized one included, ends
\* without an error, with the buffer cleared and no session left open.
C10_EndFromAnyState ==
    op = "end" =>
        /\ error.kind = "none"
        /\ current_tweets = None
        /\ session /= NoSession => sessions[session] = "closed"

\* C10 amended: end() on a stream that start() was called on, in whatever
\* state, clears the buffer and closes the current session; on a stream
\* never started it clears the buffer and raises, there being no session.
C10_EndAfterStart ==
    op = "end" =>
        /\ current_tweets = None
        /\ IF nStarts = 0
           THEN session = NoSession /\ error.kind = "AttributeError"
           ELSE sessions[session] = "closed" /\ error.kind = "none"

\* end() in the middle of a page: the generator is suspended on an item
C10_Witness ==
    /\ op = "end"
    /\ gen = "suspended"
    /\ i + 1 < Len(tweets)
    /\ next_token /= NoToken
    /\ sessions[session] = "closed"
    /\ current_tweets = None

\* a call of the retry-wrapped request has just raised after its last
\* attempt returned a status other than 200
RaisedOnStatus ==
    /\ callResult = "raised"
    /\ resp.exc = "none"
    /\ error.kind /= "none"

\* C11: the error raised once the retries are used up on a non-200 status
\* carries the last status code, the explanation of the table for that code
\* and the rule payload of the request.
C11_ErrorCarriesDiagnostics ==
    (RaisedOnStatus /\ resp.status_code \in GNIP_RESP_CODES) =>
        /\ error.status_code = resp.status_code
        /\ error.explanation = GNIP_RESP_TEXT[resp.status_code]
        /\ error.payload = Some(rule_payload)

\* the payload gen_rule_payload returned, read back from its JSON text
BuiltPayload ==
    IF pb_args.stringify THEN json_loads(pb_result.value) ELSE pb_result.value

BucketNames == {<<"day">>, <<"hour">>, <<"minute">>}

\* C12: gen_rule_payload either raises a ValueError or returns a payload
\* that does not hold both bucket and maxResults; a count bucket other than
\* day, hour, minute makes it raise, and it raises on account of the bucket
\* for no other input.
C12_BucketExcludesMaxResults ==
    pb_result /= NotBuilt =>
        /\ \/ pb_result.raised = "ValueError"
           \/ ~({"bucket", "maxResults"} \subseteq DOMAIN BuiltPayload)
        /\ (Truthy(pb_args.count_bucket)
              /\ pb_args.count_bucket[1] \notin BucketNames)
             => pb_result.raised = "ValueError"
        /\ pb_result.cause = "count_bucket"
             => (Truthy(pb_args.count_bucket)
                   /\ pb_args.count_bucket[1] \notin BucketNames)

\* a payload with a bucket came back as JSON text, without maxResults
C12_Witness ==
    /\ pb_result.raised = "none"
    /\ pb_args.stringify
    /\ pb_args.count_bucket = Some(<<"hour">>)
    /\ DOMAIN BuiltPayload = {"query", "bucket"}

\* C13 as stated: a call with both a count bucket and a maxResults raises.
C13_BucketWithMaxResultsRaises ==
    (pb_result /= NotBuilt /\ Truthy(pb_args.count_bucket))
        => pb_result.raised = "ValueError"

\* C13 amended: a call with a count bucket of day, hour or minute (and the
\* maxResults every call has) does not raise on account of the bucket; the
\* payload it returns holds that bucket and no maxResults.
C13_ValidBucketDropsMaxResults ==
    (pb_result /= NotBuilt /\ Truthy(pb_args.count_bucket)
       /\ pb_args.count_bucket[1] \in BucketNames) =>
        /\ pb_result.cause /= "count_bucket"
        /\ pb_result.raised = "none" =>
              /\ "bucket" \in DOMAIN BuiltPayload
              /\ BuiltPayload.bucket = pb_args.count_bucket[1]
              /\ "maxResults" \notin DOMAIN BuiltPayload

\* maxResults = 500 and bucket = minute were given; the payload came back
C13_Witness ==
    /\ pb_result.raised = "none"
    /\ pb_args.max_results = 500
    /\ pb_args.count_bucket = Some(<<"minute">>)
    /\ BuiltPayload.bucket = <<"minute">>
    /\ "maxResults" \notin DOMAIN BuiltPayload

\* C20: the payload returned holds fromDate exactly when a from date was
\* given and toDate exactly when a to date was given, and each field that
\* is present is the normalized form of its own argument, never null.
C20_DateFieldsOfOwnArguments ==
    pb_result.raised = "none" =>
        /\ "fromDate" \in DOMAIN BuiltPayload <=> Truthy(pb_args.from_date)
        /\ "toDate" \in DOMAIN BuiltPayload <=> Truthy(pb_args.to_date)
        /\ "fromDate" \in DOMAIN BuiltPayload =>
              /\ BuiltPayload.fromDate /= None
              /\ BuiltPayload.fromDate =
                     convert_utc_time(pb_args.from_date).value
        /\ "toDate" \in DOMAIN BuiltPayload =>
              /\ BuiltPayload.toDate /= None
              /\ BuiltPayload.toDate = convert_utc_time(pb_args.to_date).value

CountsUrl == <<"search", "/", "acct", "/", "prod", "/", "counts", ".", "json">>

\* C14: on a url with the segment counts, once start_stream has run the
\* transform is the identity whatever tweetify is, and every item yielded
\* is a raw item of a response, unchanged.
C14_CountsUrlYieldsRawItems ==
    (url = CountsUrl /\ nStarts >= 1) =>
        /\ tweet_func = "identity"
        /\ \A n \in 1..Len(emitted) :
              \E k \in 1..Len(servedItems) : emitted[n] = servedItems[k]

\* a stream built with tweetify on a counts url has yielded two raw items
C14_Witness ==
    /\ url = CountsUrl
    /\ tweetify
    /\ Len(emitted) = 2
    /\ emitted = SubSeq(servedItems, 1, 2)

\* the payload the stream was constructed with
FirstPayload == [query |-> "rule", maxResults |-> 100]

\* C15: the payload of a follow-up page request holds under next the token
\* of the response received last (response k carries token k), its other
\* fields are those of the first request; the request made by start_stream
\* is the payload the stream was given, without a token.
C15_RequestsCarryLatestTokenOnly ==
    /\ pc = "iter_request" =>
          /\ "next" \in DOMAIN rule_payload
          /\ rule_payload.next = nResp
          /\ rule_payload.next = next_token
          /\ [k \in (DOMAIN rule_payload) \ {"next"} |-> rule_payload[k]]
                = FirstPayload
    /\ pc = "start_request" => rule_payload = FirstPayload

\* C16: a page request of the generator is made only while total_results
\* is below max_results.
C16_NoFetchOnceCapReached ==
    pc = "iter_request" => total_results < max_results

\* the cap was reached with the last item of a page whose response carried
\* a token; the generator ended without a request
C16_Witness ==
    /\ gen = "done"
    /\ pc = "caller"
    /\ max_results > 0
    /\ total_results = max_results
    /\ i = Len(tweets)
    /\ next_token /= NoToken
    /\ nCalls = 1

\* C18: whatever the non-200 status, in the table or not, the error raised
\* once the retries are used up is the HTTPError.
C18_SameErrorForEveryStatus ==
    RaisedOnStatus => error.kind = "HTTPError"

\* C19: for the first lazy sequence of a stream, whenever the consumer
\* holds an item (the generator is suspended) and once the iteration has
\* finished, total_results is the number of items yielded so far.
C19_TotalResultsCountsEmitted ==
    (nStarts = 1 /\ pc = "caller" /\ gen \in {"suspended", "done"}) =>
        total_results = Len(emitted)

\* C17: an iteration whose requests were all answered with status 200 ends
\* only because the cap is reached or because the response consumed last
\* carried no token; it never ends in an exception while the buffer the
\* caller has not dropped is there.
C17_EndsByCapOrMissingToken ==
    /\ gen = "done" => (total_results >= max_results \/ next_token = NoToken)
    /\ gen = "failed" => (callResult = "raised" \/ current_tweets = None)

====
